---- MODULE Spec2Model ----
(***************************************************************************)
(* Model of the DyldExtractor command-line front end (extractor.py):       *)
(* argument dispatch in main, the image filter _filterImages, and the      *)
(* extraction run _extractImage with its five converter stages and the     *)
(* final write of the MachO file.                                          *)
(*                                                                         *)
(* Strings are sequences of one-character strings, files are sequences of  *)
(* small integers ("bytes").                                               *)
(***************************************************************************)
EXTENDS Integers, Sequences, FiniteSets, TLC

(***************************************************************************)
(* Bounds of the model.                                                    *)
(***************************************************************************)
FMaxPathLen == 2    \* longest path handed to _filterImages (SpecFilter)
FMaxPaths   == 2    \* longest path list handed to _filterImages (SpecFilter)
FMaxTermLen == 2    \* longest filter term handed to _filterImages (SpecFilter)
MaxImages   == 2    \* most images in the cache directory (Spec)
CacheLen    == 2    \* number of bytes of the cache file

None == <<"<None>">>   \* an argument that was not given
NoCall == "none"       \* no call has raised

Min(a, b) == IF a < b THEN a ELSE b

\* all sequences over S of length lo .. hi
SeqsOf(S, lo, hi) == UNION {[1..n -> S] : n \in lo..hi}

(***************************************************************************)
(* Python string operations used by the program.                           *)
(***************************************************************************)
UpperChars == <<"A","B","C","D","E","F","G","H","I","J","K","L","M",
                "N","O","P","Q","R","S","T","U","V","W","X","Y","Z">>
LowerChars == <<"a","b","c","d","e","f","g","h","i","j","k","l","m",
                "n","o","p","q","r","s","t","u","v","w","x","y","z">>

\* str.lower() on one character
LowerChar(c) ==
  IF \E i \in 1..Len(UpperChars) : UpperChars[i] = c
  THEN LowerChars[CHOOSE i \in 1..Len(UpperChars) : UpperChars[i] = c]
  ELSE c

\* str.lower()
lower(s) == [i \in 1..Len(s) |-> LowerChar(s[i])]

IsSpace(c) == c \in {" ", "\t", "\n"}

RECURSIVE lstrip(_)
lstrip(s) == IF s # <<>> /\ IsSpace(Head(s)) THEN lstrip(Tail(s)) ELSE s

RECURSIVE rstrip(_)
rstrip(s) ==
  IF s # <<>> /\ IsSpace(s[Len(s)]) THEN rstrip(SubSeq(s, 1, Len(s) - 1)) ELSE s

\* str.strip()
strip(s) == rstrip(lstrip(s))

\* does needle occur in hay at offset i or later (left-to-right scan)
RECURSIVE FindFrom(_, _, _)
FindFrom(needle, hay, i) ==
  IF i + Len(needle) > Len(hay) THEN FALSE
  ELSE IF SubSeq(hay, i + 1, i + Len(needle)) = needle THEN TRUE
  ELSE FindFrom(needle, hay, i + 1)

\* the Python operator  needle in hay  on strings
StrIn(needle, hay) == FindFrom(needle, hay, 0)

(***************************************************************************)
(* _filterImages                                                           *)
(***************************************************************************)
\* the term the loop compares with: filterTerm = filterTerm.lower()
FilterTermCase_Kept(filterTerm) == filterTerm
FilterTermCase(filterTerm) == lower(filterTerm)

\* the comparison of the loop body:  filterTerm in path.lower()
PathMatches(term, path) == StrIn(term, lower(path))

\* the for loop: filteredPaths.append(path) for every matching path
RECURSIVE FilterLoop(_, _, _)
FilterLoop(imagePaths, term, filteredPaths) ==
  IF imagePaths = <<>> THEN filteredPaths
  ELSE FilterLoop(Tail(imagePaths), term,
                  IF PathMatches(term, Head(imagePaths))
                  THEN Append(filteredPaths, Head(imagePaths))
                  ELSE filteredPaths)

_filterImages(imagePaths, filterTerm) ==
  FilterLoop(imagePaths, FilterTermCase(filterTerm), <<>>)


(***************************************************************************)
(* State.                                                                  *)
(***************************************************************************)
VARIABLES
  images,      \* dyldCtx.images: the image directory of the cache, in order
  args,        \* the parsed command line (getArguments)
  cacheFile,   \* the bytes of the cache file on disk (shared by all runs)
  reporter,    \* per run: how the status bar behaves
  pc,          \* per run: position in main / _extractImage
  imageMap,    \* per run: the dict  path -> imageData  built by main
  printed,     \* per run: what was printed to stdout
  dirsCreated, \* per run: os.makedirs was called
  target,      \* per run: the imageData handed to _extractImage
  outputPath,  \* per run: the outputPath handed to _extractImage
  machoCtx,    \* per run: extractionCtx.machoCtx (file mapping and segments)
  stageLog,    \* per run: the converters called so far, in call order
  failed,      \* per run: the call that raised, or None
  statusBar,   \* per run: the variables of the progress bar
  fileSize,    \* per run: the local fileSize of _extractImage
  outFile,     \* per run: the file at outputPath
  fIn,         \* SpecFilter: arguments of a direct call of _filterImages
  fOut         \* SpecFilter: its return value

vars == <<images, args, cacheFile, reporter, pc, imageMap, printed,
          dirsCreated, target, outputPath, machoCtx, stageLog, failed,
          statusBar, fileSize, outFile, fIn, fOut>>

inputVars == <<images, args, reporter, fIn, fOut>>

RunIds == {"A", "B"}

\* the values of a byte, and their number
Bytes == {0, 1}
ByteMod == Cardinality(Bytes)
CacheFiles == [1..CacheLen -> Bytes]

\* the image paths and the --extract / --filter arguments tried
Paths == {<<"a">>, <<"B">>, <<"B", "a">>}
Terms == {<<>>, <<" ">>, <<"A">>, <<" ", "A">>, <<"b">>}

NUL == "\\0"

\* the directory entries: image i of the cache lies at address i - 1
ImageDirs ==
  {[i \in 1..Len(ps) |-> [path |-> ps[i], address |-> i - 1]] :
     ps \in SeqsOf(Paths, 0, MaxImages)}

ArgSets ==
  [list_frameworks : BOOLEAN,
   filter  : {None} \cup Terms,
   extract : {None} \cup Terms,
   output  : {None, <<"o">>}]

ReporterKinds == {"show", "mute"}

\* Python truthiness of an optional string argument
Truthy(s) == s # None /\ s # <<>>

(***************************************************************************)
(* dict operations (insertion ordered, a repeated key keeps its position   *)
(* and takes the new value).                                               *)
(***************************************************************************)
DictKeys(d) == [i \in 1..Len(d) |-> d[i].key]

DictHas(d, k) == \E i \in 1..Len(d) : d[i].key = k

DictGet(d, k) == d[CHOOSE i \in 1..Len(d) : d[i].key = k].value

DictSet(d, k, v) ==
  IF DictHas(d, k)
  THEN [i \in 1..Len(d) |-> IF d[i].key = k THEN [key |-> k, value |-> v]
                                            ELSE d[i]]
  ELSE Append(d, [key |-> k, value |-> v])

\* dyldCtx.readString: the bytes of the path up to and including the NUL
readString(imageData) == Append(imageData.path, NUL)

\* path = readString(..); path = path[0:-1]; path = path.decode("utf-8")
ImagePath(imageData) ==
  SubSeq(readString(imageData), 1, Len(readString(imageData)) - 1)

\* the loop  for imageData in dyldCtx.images: imageMap[path] = imageData
RECURSIVE BuildImageMap(_, _)
BuildImageMap(imgs, d) ==
  IF imgs = <<>> THEN d
  ELSE BuildImageMap(Tail(imgs), DictSet(d, ImagePath(Head(imgs)), Head(imgs)))

(***************************************************************************)
(* mmap                                                                    *)
(***************************************************************************)
\* mmap.mmap(fd, 0, access=ACCESS_WRITE): stores go through to the file
MmapShared(file) == [private |-> FALSE, bytes |-> file]
\* mmap.mmap(dyldFile.fileno(), 0, access=mmap.ACCESS_COPY): stores stay in
\* a private copy of the file's bytes
MmapCopy(file) == [private |-> TRUE, bytes |-> file]

\* the bytes seen through a mapping
MapBytes(m) == IF m.private THEN m.bytes ELSE cacheFile

\* mmap.seek(pos) followed by mmap.read(n): at most n bytes from pos on
MmapRead(bytes, pos, n) == SubSeq(bytes, pos + 1, Min(pos + n, Len(bytes)))

(***************************************************************************)
(* The converters.                                                         *)
(***************************************************************************)
Pipeline_Swapped ==
  <<"processSlideInfo", "optimizeLinkedit", "fixStubs", "optimizeOffsets",
    "fixObjC">>
\* the calls of _extractImage in program order
Pipeline ==
  <<"processSlideInfo", "optimizeLinkedit", "fixStubs", "fixObjC",
    "optimizeOffsets">>

StageNo(name) == CHOOSE k \in 1..5 :
  <<"processSlideInfo", "optimizeLinkedit", "fixStubs", "fixObjC",
    "optimizeOffsets">>[k] = name

\* what a converter stores into the image: it reads the cache through the
\* CacheView and rewrites one byte of the image's buffer
StageEffect(name, bytes, cache, address) ==
  LET k == StageNo(name)
      p == ((address + k) % Len(bytes)) + 1
      q == ((address + k + 1) % Len(cache)) + 1
  IN  [bytes EXCEPT ![p] = (bytes[p] + cache[q] + k) % ByteMod]

Seg(off, size) == [fileoff |-> off, filesize |-> size]

\* the segment table of the image as it lies in the cache
CacheSegments(len) ==
  [n \in {"__TEXT", "__LINKEDIT"} |-> Seg(0, len)]

\* the segment tables optimizeOffsets can leave behind for a buffer of len
\* bytes: segments lie inside the buffer, __TEXT first, __LINKEDIT last
Layouts(len) ==
  LET withLinkedit ==
        {[n \in {"__TEXT", "__LINKEDIT"} |->
            IF n = "__TEXT" THEN Seg(0, e[1]) ELSE Seg(e[1], e[2])] :
           e \in {x \in (0..len) \X (0..len) : x[1] + x[2] <= len}}
      withoutLinkedit == {[n \in {"__TEXT"} |-> Seg(0, len)]}
  IN  withLinkedit \cup withoutLinkedit

\* statusBar.update(unit=..., status=...)
StatusUpdate(bar, kind, unit, status) ==
  IF kind = "show"
  THEN [unit |-> unit, status |-> status, ret |-> TRUE]
  ELSE [bar EXCEPT !.ret = FALSE]


(***************************************************************************)
(* Initial states.                                                         *)
(***************************************************************************)
NoImage == [path |-> <<>>, address |-> -1]
NoCtx   == [file |-> MmapCopy(<<>>), segments |-> CacheSegments(0)]
NoBar   == [unit |-> "", status |-> "", ret |-> TRUE]
NoFile  == [opened |-> FALSE, closed |-> FALSE, data |-> <<>>]
NotCalled == [returned |-> FALSE, paths |-> <<>>]
NoArgs  == [list_frameworks |-> FALSE, filter |-> None, extract |-> None,
            output |-> None]

InitRun(start) ==
  /\ pc = start
  /\ imageMap = [r \in RunIds |-> <<>>]
  /\ printed = [r \in RunIds |-> <<>>]
  /\ dirsCreated = [r \in RunIds |-> FALSE]
  /\ machoCtx = [r \in RunIds |-> NoCtx]
  /\ stageLog = [r \in RunIds |-> <<>>]
  /\ failed = [r \in RunIds |-> NoCall]
  /\ statusBar = [r \in RunIds |-> NoBar]
  /\ fileSize = [r \in RunIds |-> -1]
  /\ outFile = [r \in RunIds |-> NoFile]

\* one invocation of the program (run A) on any cache and any command line
Init ==
  /\ images \in ImageDirs
  /\ args \in ArgSets
  /\ cacheFile \in CacheFiles
  /\ reporter = [r \in RunIds |-> "show"]
  /\ InitRun([r \in RunIds |-> IF r = "A" THEN "main" ELSE "idle"])
  /\ target = [r \in RunIds |-> NoImage]
  /\ outputPath = [r \in RunIds |-> None]
  /\ fIn = [paths |-> <<>>, term |-> <<>>]
  /\ fOut = NotCalled

\* the images two concurrent runs can be started on
RunImages == {[path |-> <<"a">>, address |-> a] : a \in {0, 1}}

\* two runs of _extractImage on the same cache file
InitRuns ==
  /\ images = <<>>
  /\ args = NoArgs
  /\ cacheFile \in CacheFiles
  /\ reporter \in {f \in [RunIds -> ReporterKinds] : f["A"] = "show"}
  /\ InitRun([r \in RunIds |-> "extract"])
  /\ target \in [RunIds -> RunImages]
  /\ outputPath = [r \in RunIds |-> <<r>>]
  /\ fIn = [paths |-> <<>>, term |-> <<>>]
  /\ fOut = NotCalled

\* the characters of the paths and of the terms _filterImages is tried on
FilterPathChars == {"a", "B"}
FilterTermChars == {"A", "b"}

\* a direct call of _filterImages
InitFilter ==
  /\ images = <<>>
  /\ args = NoArgs
  /\ cacheFile = [i \in 1..CacheLen |-> 0]
  /\ reporter = [r \in RunIds |-> "show"]
  /\ InitRun([r \in RunIds |-> "idle"])
  /\ target = [r \in RunIds |-> NoImage]
  /\ outputPath = [r \in RunIds |-> None]
  /\ fIn \in [paths : SeqsOf(SeqsOf(FilterPathChars, 0, FMaxPathLen), 0, FMaxPaths),
              term  : SeqsOf(FilterTermChars, 0, FMaxTermLen)]
  /\ fOut = NotCalled

(***************************************************************************)
(* main                                                                    *)
(***************************************************************************)
\* with open(dyld_path) ...: dyldCtx = DyldContext(dyldFile); build imageMap
EnumerateImages(r) ==
  /\ pc[r] = "main"
  /\ imageMap' = [imageMap EXCEPT ![r] = BuildImageMap(images, <<>>)]
  /\ pc' = [pc EXCEPT ![r] = "dispatch"]
  /\ UNCHANGED <<inputVars, cacheFile, printed, dirsCreated, target,
                 outputPath, machoCtx, stageLog, failed, statusBar, fileSize,
                 outFile>>

\* the paths the list option prints
ListedPaths(d) ==
  IF Truthy(args.filter)
  THEN _filterImages(DictKeys(d), lower(strip(args.filter)))
  ELSE DictKeys(d)

\* the list option without its return: main goes on to the extract option
ListImages_FallThrough(r) ==
  /\ pc[r] = "dispatch"
  /\ args.list_frameworks
  /\ printed' = [printed EXCEPT ![r] =
       Append(@, [kind |-> "Listing Images", text |-> ListedPaths(imageMap[r])])]
  /\ IF Truthy(args.extract)
        /\ Len(_filterImages(DictKeys(imageMap[r]), strip(args.extract))) # 0
     THEN /\ dirsCreated' = [dirsCreated EXCEPT ![r] = (args.output = None)]
          /\ outputPath' = [outputPath EXCEPT ![r] = <<"o">>]
          /\ target' = [target EXCEPT ![r] =
               DictGet(imageMap[r],
                       _filterImages(DictKeys(imageMap[r]), strip(args.extract))[1])]
          /\ pc' = [pc EXCEPT ![r] = "extract"]
     ELSE /\ pc' = [pc EXCEPT ![r] = "done"]
          /\ UNCHANGED <<dirsCreated, outputPath, target>>
  /\ UNCHANGED <<inputVars, cacheFile, imageMap, machoCtx, stageLog, failed,
                 statusBar, fileSize, outFile>>

\* if args.list_frameworks: ... return
ListImages(r) ==
  /\ pc[r] = "dispatch"
  /\ args.list_frameworks
  /\ printed' = [printed EXCEPT ![r] =
       Append(@, [kind |-> "Listing Images", text |-> ListedPaths(imageMap[r])])]
  /\ pc' = [pc EXCEPT ![r] = "done"]
  /\ UNCHANGED <<inputVars, cacheFile, imageMap, dirsCreated, target,
                 outputPath, machoCtx, stageLog, failed, statusBar, fileSize,
                 outFile>>

extractionTarget == strip(args.extract)

targetPaths(d) == _filterImages(DictKeys(d), extractionTarget)

\* the not-found branch taken after the output directory was made
ExtractNotFound_MkdirFirst(r) ==
  /\ pc[r] = "dispatch"
  /\ ~args.list_frameworks
  /\ Truthy(args.extract)
  /\ Len(targetPaths(imageMap[r])) = 0
  /\ dirsCreated' = [dirsCreated EXCEPT ![r] = (args.output = None)]
  /\ printed' = [printed EXCEPT ![r] =
       Append(@, [kind |-> "Unable to find image", text |-> <<extractionTarget>>])]
  /\ pc' = [pc EXCEPT ![r] = "done"]
  /\ UNCHANGED <<inputVars, cacheFile, imageMap, target, outputPath, machoCtx,
                 stageLog, failed, statusBar, fileSize, outFile>>

\* if args.extract: ... if len(targetPaths) == 0: print(Unable to find); return
ExtractNotFound(r) ==
  /\ pc[r] = "dispatch"
  /\ ~args.list_frameworks
  /\ Truthy(args.extract)
  /\ Len(targetPaths(imageMap[r])) = 0
  /\ printed' = [printed EXCEPT ![r] =
       Append(@, [kind |-> "Unable to find image", text |-> <<extractionTarget>>])]
  /\ pc' = [pc EXCEPT ![r] = "done"]
  /\ UNCHANGED <<inputVars, cacheFile, imageMap, dirsCreated, target,
                 outputPath, machoCtx, stageLog, failed, statusBar, fileSize,
                 outFile>>

\* the image main hands to _extractImage: imageMap[targetPaths[0]]
SelectedImage_Last(d) == DictGet(d, targetPaths(d)[Len(targetPaths(d))])
SelectedImage(d) == DictGet(d, targetPaths(d)[1])

\* outputPath, makedirs, print(Extracting), call of _extractImage
ExtractSelect(r) ==
  /\ pc[r] = "dispatch"
  /\ ~args.list_frameworks
  /\ Truthy(args.extract)
  /\ Len(targetPaths(imageMap[r])) # 0
  /\ IF args.output = None
     THEN /\ outputPath' = [outputPath EXCEPT ![r] =
                              <<"binaries/">> \o extractionTarget]
          /\ dirsCreated' = [dirsCreated EXCEPT ![r] = TRUE]
     ELSE /\ outputPath' = [outputPath EXCEPT ![r] = args.output]
          /\ UNCHANGED dirsCreated
  /\ printed' = [printed EXCEPT ![r] =
       Append(@, [kind |-> "Extracting", text |-> <<targetPaths(imageMap[r])[1]>>])]
  /\ target' = [target EXCEPT ![r] = SelectedImage(imageMap[r])]
  /\ pc' = [pc EXCEPT ![r] = "extract"]
  /\ UNCHANGED <<inputVars, cacheFile, imageMap, machoCtx, stageLog, failed,
                 statusBar, fileSize, outFile>>

\* neither option applies: main falls off its end
NoOption(r) ==
  /\ pc[r] = "dispatch"
  /\ ~args.list_frameworks
  /\ ~Truthy(args.extract)
  /\ pc' = [pc EXCEPT ![r] = "done"]
  /\ UNCHANGED <<inputVars, cacheFile, imageMap, printed, dirsCreated, target,
                 outputPath, machoCtx, stageLog, failed, statusBar, fileSize,
                 outFile>>


(***************************************************************************)
(* _extractImage                                                           *)
(***************************************************************************)
\* machoFile = mmap(..., ACCESS_COPY); machoCtx; statusBar; extractionCtx
BeginExtract(r) ==
  /\ pc[r] = "extract"
  /\ machoCtx' = [machoCtx EXCEPT ![r] =
       [file |-> MmapCopy(cacheFile), segments |-> CacheSegments(CacheLen)]]
  /\ statusBar' = [statusBar EXCEPT ![r] =
       [unit |-> "--", status |-> "--", ret |-> TRUE]]
  /\ pc' = [pc EXCEPT ![r] = "stage"]
  /\ UNCHANGED <<inputVars, cacheFile, imageMap, printed, dirsCreated, target,
                 outputPath, stageLog, failed, fileSize, outFile>>

\* the converter called next
NextStage(r) == Pipeline[Len(stageLog[r]) + 1]

\* a converter runs to completion: it reports its status, rewrites the
\* image's buffer, and optimizeOffsets leaves the final segment table
StageOk(r) ==
  /\ pc[r] = "stage"
  /\ LET name  == NextStage(r)
         m     == machoCtx[r].file
         bytes == StageEffect(name, MapBytes(m), cacheFile, target[r].address)
     IN  /\ stageLog' = [stageLog EXCEPT ![r] = Append(@, name)]
         /\ statusBar' = [statusBar EXCEPT ![r] =
              StatusUpdate(@, reporter[r], name, "Running")]
         /\ \E segs \in (IF name = "optimizeOffsets"
                         THEN Layouts(Len(bytes))
                         ELSE {machoCtx[r].segments}) :
              IF m.private
              THEN /\ machoCtx' = [machoCtx EXCEPT ![r] =
                        [file |-> [m EXCEPT !.bytes = bytes], segments |-> segs]]
                   /\ UNCHANGED cacheFile
              ELSE /\ machoCtx' = [machoCtx EXCEPT ![r].segments = segs]
                   /\ cacheFile' = bytes
  /\ pc' = [pc EXCEPT ![r] =
       IF Len(stageLog[r]) + 1 = Len(Pipeline) THEN "open" ELSE "stage"]
  /\ UNCHANGED <<inputVars, imageMap, printed, dirsCreated, target,
                 outputPath, failed, fileSize, outFile>>

\* a converter raises and the exception is swallowed: the run goes on
StageFatal_Swallowed(r) ==
  /\ pc[r] = "stage"
  /\ stageLog' = [stageLog EXCEPT ![r] = Append(@, NextStage(r))]
  /\ statusBar' = [statusBar EXCEPT ![r] =
       StatusUpdate(@, reporter[r], NextStage(r), "Running")]
  /\ failed' = [failed EXCEPT ![r] = NextStage(r)]
  /\ pc' = [pc EXCEPT ![r] =
       IF Len(stageLog[r]) + 1 = Len(Pipeline) THEN "open" ELSE "stage"]
  /\ UNCHANGED <<inputVars, cacheFile, imageMap, printed, dirsCreated, target,
                 outputPath, machoCtx, fileSize, outFile>>

\* a converter raises: the exception leaves _extractImage and main
StageFatal(r) ==
  /\ pc[r] = "stage"
  /\ stageLog' = [stageLog EXCEPT ![r] = Append(@, NextStage(r))]
  /\ statusBar' = [statusBar EXCEPT ![r] =
       StatusUpdate(@, reporter[r], NextStage(r), "Running")]
  /\ failed' = [failed EXCEPT ![r] = NextStage(r)]
  /\ pc' = [pc EXCEPT ![r] = "aborted"]
  /\ UNCHANGED <<inputVars, cacheFile, imageMap, printed, dirsCreated, target,
                 outputPath, machoCtx, fileSize, outFile>>

\* with open(outputPath, "wb") as outFile: statusBar.update(Writing file)
OpenOutput(r) ==
  /\ pc[r] = "open"
  /\ outFile' = [outFile EXCEPT ![r] =
       [opened |-> TRUE, closed |-> FALSE, data |-> <<>>]]
  /\ statusBar' = [statusBar EXCEPT ![r] =
       StatusUpdate(@, reporter[r], "Extractor", "Writing file")]
  /\ pc' = [pc EXCEPT ![r] = "lookup"]
  /\ UNCHANGED <<inputVars, cacheFile, imageMap, printed, dirsCreated, target,
                 outputPath, machoCtx, stageLog, failed, fileSize>>

\* fileSize = linkEditSeg.fileoff + linkEditSeg.filesize
FileSizeOf_SizeOnly(linkEditSeg) == linkEditSeg.filesize
FileSizeOf(linkEditSeg) == linkEditSeg.fileoff + linkEditSeg.filesize

\* linkEditSeg = newMachoCtx.segments[b"__LINKEDIT"].seg; fileSize = ...
LookupLinkedit(r) ==
  /\ pc[r] = "lookup"
  /\ "__LINKEDIT" \in DOMAIN machoCtx[r].segments
  /\ fileSize' = [fileSize EXCEPT ![r] =
       FileSizeOf(machoCtx[r].segments["__LINKEDIT"])]
  /\ pc' = [pc EXCEPT ![r] = "write"]
  /\ UNCHANGED <<inputVars, cacheFile, imageMap, printed, dirsCreated, target,
                 outputPath, machoCtx, stageLog, failed, statusBar, outFile>>

\* the lookup raises KeyError: the with block closes the file it created
LookupLinkeditMissing(r) ==
  /\ pc[r] = "lookup"
  /\ "__LINKEDIT" \notin DOMAIN machoCtx[r].segments
  /\ outFile' = [outFile EXCEPT ![r].closed = TRUE]
  /\ failed' = [failed EXCEPT ![r] = "segments[__LINKEDIT]"]
  /\ pc' = [pc EXCEPT ![r] = "aborted"]
  /\ UNCHANGED <<inputVars, cacheFile, imageMap, printed, dirsCreated, target,
                 outputPath, machoCtx, stageLog, statusBar, fileSize>>

\* newMachoCtx.file.seek(0); outFile.write(newMachoCtx.file.read(fileSize))
WrittenBytes_IfShown(r) ==
  IF statusBar[r].ret
  THEN MmapRead(MapBytes(machoCtx[r].file), 0, fileSize[r])
  ELSE <<>>
WrittenBytes(r) == MmapRead(MapBytes(machoCtx[r].file), 0, fileSize[r])

WriteFile(r) ==
  /\ pc[r] = "write"
  /\ outFile' = [outFile EXCEPT ![r] =
       [opened |-> TRUE, closed |-> TRUE, data |-> @.data \o WrittenBytes(r)]]
  /\ pc' = [pc EXCEPT ![r] = "statusDone"]
  /\ UNCHANGED <<inputVars, cacheFile, imageMap, printed, dirsCreated, target,
                 outputPath, machoCtx, stageLog, failed, statusBar, fileSize>>

\* statusBar.update(unit="Extractor", status="Done")
StatusDone(r) ==
  /\ pc[r] = "statusDone"
  /\ statusBar' = [statusBar EXCEPT ![r] =
       StatusUpdate(@, reporter[r], "Extractor", "Done")]
  /\ pc' = [pc EXCEPT ![r] = "done"]
  /\ UNCHANGED <<inputVars, cacheFile, imageMap, printed, dirsCreated, target,
                 outputPath, machoCtx, stageLog, failed, fileSize, outFile>>

\* a direct call of _filterImages
CallFilter ==
  /\ ~fOut.returned
  /\ fOut' = [returned |-> TRUE, paths |-> _filterImages(fIn.paths, fIn.term)]
  /\ UNCHANGED <<images, args, cacheFile, reporter, pc, imageMap, printed,
                 dirsCreated, target, outputPath, machoCtx, stageLog, failed,
                 statusBar, fileSize, outFile, fIn>>

(***************************************************************************)
(* Specifications.                                                         *)
(***************************************************************************)
ExtractStep(r) ==
  \/ BeginExtract(r)
  \/ StageOk(r)
  \/ StageFatal(r)
  \/ OpenOutput(r)
  \/ LookupLinkedit(r)
  \/ LookupLinkeditMissing(r)
  \/ WriteFile(r)
  \/ StatusDone(r)

MainStep(r) ==
  \/ EnumerateImages(r)
  \/ ListImages(r)
  \/ ExtractNotFound(r)
  \/ ExtractSelect(r)
  \/ NoOption(r)

Next == \E r \in RunIds : MainStep(r) \/ ExtractStep(r)

\* one invocation of the program
Spec == Init /\ [][Next]_vars

NextRuns == \E r \in RunIds : ExtractStep(r)

\* two extraction runs sharing one cache file
SpecRuns == InitRuns /\ [][NextRuns]_vars

NextFilter == CallFilter

\* _filterImages on its own
SpecFilter == InitFilter /\ [][NextFilter]_vars


(***************************************************************************)
(* Vocabulary of the properties.                                           *)
(***************************************************************************)
\* the converters in the order the design prescribes
ExpectedOrder ==
  <<"processSlideInfo", "optimizeLinkedit", "fixStubs", "fixObjC",
    "optimizeOffsets">>

IsPrefix(s, t) == Len(s) <= Len(t) /\ s = SubSeq(t, 1, Len(s))

\* path contains term as a substring, both compared case-insensitively
ContainsCI(term, path) ==
  \E i \in 0..(Len(path) - Len(term)) :
    \A j \in 1..Len(term) : LowerChar(path[i + j]) = LowerChar(term[j])

\* the k-th smallest element of a set of indices
KthOf(idx, k) == CHOOSE i \in idx : Cardinality({j \in idx : j < i}) = k - 1

\* the elements of seq at the indices idx, in their order in seq
Kept(seq, idx) == [k \in 1..Cardinality(idx) |-> seq[KthOf(idx, k)]]

\* the indices of the directory entries whose path contains the name
MatchingImages(name) ==
  {i \in 1..Len(images) : ContainsCI(name, images[i].path)}

\* the run did nothing that writes: no converter ran, no file was opened,
\* no directory was made
NothingWritten(r) ==
  /\ stageLog[r] = <<>>
  /\ ~outFile[r].opened
  /\ outFile[r].data = <<>>
  /\ ~dirsCreated[r]
  /\ target[r] = NoImage
  /\ pc[r] \in {"idle", "main", "dispatch", "done"}

Finished(r) == pc[r] \in {"done", "aborted"}

\* the run wrote its file and returned from _extractImage
Extracted(r) == pc[r] = "done" /\ outFile[r].opened /\ outFile[r].closed

(***************************************************************************)
(* C1                                                                      *)
(***************************************************************************)
\* C1: in every extraction run the converters are called in the order
\* processSlideInfo, optimizeLinkedit, fixStubs, fixObjC, optimizeOffsets,
\* each at most once and none before its predecessor has returned; the
\* output is opened and written only after all five have returned, each
\* having run exactly once, with optimizeOffsets the last of them.
C1_StagesInOrder ==
  \A r \in RunIds :
    /\ IsPrefix(stageLog[r], ExpectedOrder)
    /\ (failed[r] = NoCall /\ pc[r] = "stage") => Len(stageLog[r]) < 5
    /\ (outFile[r].opened \/ pc[r] \in {"open", "lookup", "write", "statusDone"})
         => /\ stageLog[r] = ExpectedOrder
            /\ stageLog[r][Len(stageLog[r])] = "optimizeOffsets"

C1_Witness ==
  \E r \in RunIds :
    /\ Extracted(r)
    /\ stageLog[r] = ExpectedOrder
    /\ outFile[r].data # <<>>

(***************************************************************************)
(* C2                                                                      *)
(***************************************************************************)
StageNames == {ExpectedOrder[k] : k \in 1..Len(ExpectedOrder)}

\* C2: when a converter ends in a fatal error the run is aborted: the failed
\* converter is the last one called, and the output file is never opened or
\* written; the output is opened only after all five converters returned
\* without a fatal error.
C2_FatalStageAborts ==
  \A r \in RunIds :
    /\ failed[r] \in StageNames =>
         /\ pc[r] = "aborted"
         /\ stageLog[r] # <<>>
         /\ stageLog[r][Len(stageLog[r])] = failed[r]
         /\ ~outFile[r].opened
         /\ outFile[r].data = <<>>
    /\ outFile[r].opened =>
         /\ failed[r] \notin StageNames
         /\ \A k \in 1..5 : \E i \in 1..Len(stageLog[r]) :
              stageLog[r][i] = ExpectedOrder[k]

C2_Witness ==
  \E r \in RunIds :
    /\ pc[r] = "aborted"
    /\ failed[r] = "fixStubs"
    /\ stageLog[r] = SubSeq(ExpectedOrder, 1, 3)
    /\ ~outFile[r].opened

(***************************************************************************)
(* C3                                                                      *)
(***************************************************************************)
\* C3: when the image has no __LINKEDIT segment after layout, the run aborts
\* and no output is written: the destination file is neither created nor
\* truncated nor left empty.
C3_NoOutputWithoutLinkedit ==
  \A r \in RunIds :
    (pc[r] = "aborted" /\ "__LINKEDIT" \notin DOMAIN machoCtx[r].segments)
      => ~outFile[r].opened

(***************************************************************************)
(* C4                                                                      *)
(***************************************************************************)
NotFoundReported(r) ==
  printed[r] = <<[kind |-> "Unable to find image",
                  text |-> <<strip(args.extract)>>]>>

\* C4 as claimed: when --extract is given a name that matches no image path,
\* the program reports not-found and performs no write at all.
C4_Original ==
  \A r \in RunIds :
    (pc[r] = "done" /\ Truthy(args.extract)
       /\ MatchingImages(strip(args.extract)) = {})
      => NotFoundReported(r) /\ NothingWritten(r)

\* C4 amended: when --extract is given a name that matches no image path,
\* the program performs no write at all, whether or not --output is given,
\* and it reports not-found unless --list-frameworks is set or the name
\* is the empty string.
C4_NotFoundWritesNothing ==
  \A r \in RunIds :
    (pc[r] # "idle" /\ args.extract # None
       /\ MatchingImages(strip(args.extract)) = {})
      => /\ NothingWritten(r)
         /\ (pc[r] = "done" /\ ~args.list_frameworks /\ args.extract # <<>>)
              => NotFoundReported(r)

C4_Witness ==
  \E r \in RunIds :
    /\ pc[r] = "done"
    /\ images # <<>>
    /\ args.extract # None
    /\ args.output = None
    /\ MatchingImages(strip(args.extract)) = {}
    /\ NotFoundReported(r)

(***************************************************************************)
(* C5                                                                      *)
(***************************************************************************)
\* the first directory entry whose path contains the name
FirstMatch(name) == images[KthOf(MatchingImages(name), 1)]

\* the last directory entry that carries the given path
LastWithPath(path) ==
  images[CHOOSE i \in 1..Len(images) :
           /\ images[i].path = path
           /\ \A j \in i + 1..Len(images) : images[j].path # path]

\* C5 as claimed: when --extract is given a name that matches at least one
\* image path, exactly one image is extracted, the first one in directory
\* order whose path contains the stripped name case-insensitively.
C5_Original ==
  \A r \in RunIds :
    (Finished(r) /\ Truthy(args.extract)
       /\ MatchingImages(strip(args.extract)) # {})
      => target[r] = FirstMatch(strip(args.extract))

\* C5 amended: when --extract is given a non-empty name that matches at
\* least one image path and --list-frameworks is not set, exactly one image
\* is extracted: the directory entry recorded for the first path, in
\* directory order, that contains the stripped name case-insensitively,
\* which is the last entry carrying that path (the first matching image
\* whenever the paths of the directory are distinct); no other image is
\* extracted.
C5_FirstMatchExtracted ==
  \A r \in RunIds :
    /\ (pc[r] \notin {"idle", "main", "dispatch"} /\ Truthy(args.extract)
          /\ ~args.list_frameworks
          /\ MatchingImages(strip(args.extract)) # {})
         => /\ target[r] = LastWithPath(FirstMatch(strip(args.extract)).path)
            /\ printed[r] = <<[kind |-> "Extracting",
                              text |-> <<FirstMatch(strip(args.extract)).path>>]>>
            /\ ((\A i, j \in 1..Len(images) :
                   images[i].path = images[j].path => i = j)
                  => target[r] = FirstMatch(strip(args.extract)))
    /\ Len(stageLog[r]) <= 5
    /\ pc[r] \in {"idle", "main", "dispatch"} => target[r] = NoImage

C5_Witness ==
  \E r \in RunIds :
    /\ Extracted(r)
    /\ MatchingImages(strip(args.extract)) = {1, 2}
    /\ strip(args.extract) # args.extract
    /\ images[1].path # images[2].path
    /\ target[r] = images[1]


(***************************************************************************)
(* C6                                                                      *)
(***************************************************************************)
UIKitPath ==
  <<"U","I","K","i","t",".","f","r","a","m","e","w","o","r","k","/",
    "U","I","K","i","t">>
FoundationPath ==
  <<"F","o","u","n","d","a","t","i","o","n",".","f","r","a","m","e","w","o",
    "r","k","/","F","o","u","n","d","a","t","i","o","n">>

\* C6: _filterImages returns exactly the paths that contain the term as a
\* substring when both are compared case-insensitively, each entry once and
\* in the original order, and no other path; filtering the UIKit and
\* Foundation paths on "kit" returns only the UIKit path.
C6_FilterIsCaseInsensitiveSubsequence ==
  /\ fOut.returned =>
       fOut.paths =
         Kept(fIn.paths,
              {i \in 1..Len(fIn.paths) : ContainsCI(fIn.term, fIn.paths[i])})
  /\ _filterImages(<<UIKitPath, FoundationPath>>, <<"k","i","t">>) = <<UIKitPath>>
  /\ _filterImages(<<FoundationPath, UIKitPath>>, <<"K","I","T">>) = <<UIKitPath>>

C6_Witness ==
  /\ fOut.returned
  /\ Len(fIn.paths) = 2
  /\ fIn.term = <<"A">>
  /\ fIn.paths[1] = <<"B">>
  /\ fIn.paths[2] = <<"B", "a">>
  /\ fOut.paths = <<fIn.paths[2]>>

(***************************************************************************)
(* C7                                                                      *)
(***************************************************************************)
\* C7: after a successful extraction the length of the written file is the
\* end offset of the __LINKEDIT segment (fileoff + filesize) and its content
\* is the first that many bytes of the image buffer, read from offset 0;
\* the bytes of the buffer beyond that offset are not written.
C7_OutputIsPrefixUpToLinkeditEnd ==
  \A r \in RunIds :
    Extracted(r) =>
      LET seg   == machoCtx[r].segments["__LINKEDIT"]
          end   == seg.fileoff + seg.filesize
          bytes == machoCtx[r].file.bytes
      IN  /\ Len(outFile[r].data) = end
          /\ \A i \in 1..end : outFile[r].data[i] = bytes[i]

C7_Witness ==
  \E r \in RunIds :
    /\ Extracted(r)
    /\ machoCtx[r].segments["__LINKEDIT"].fileoff = 0
    /\ Len(outFile[r].data) = 1
    /\ Len(machoCtx[r].file.bytes) > 1
    /\ machoCtx[r].file.bytes[1] # machoCtx[r].file.bytes[2]

(***************************************************************************)
(* C8                                                                      *)
(***************************************************************************)
\* the buffer a run working alone on the cache leaves after its converters
RECURSIVE SoloBuffer(_, _, _)
SoloBuffer(cache, address, k) ==
  IF k = 0 THEN cache
  ELSE StageEffect(ExpectedOrder[k], SoloBuffer(cache, address, k - 1),
                   cache, address)

\* the file a run working alone writes for the given final segment table
SoloOutput(cache, address, segs) ==
  SubSeq(SoloBuffer(cache, address, 5), 1,
         segs["__LINKEDIT"].fileoff + segs["__LINKEDIT"].filesize)

\* C8: no step of any run changes the bytes of the shared cache file, and
\* in every interleaving of two runs on the same cache each run's buffer
\* and written file are the ones it produces when it runs alone.
C8_CacheNeverMutated ==
  [][/\ cacheFile' = cacheFile
     /\ \A r \in RunIds :
          /\ pc'[r] \in {"stage", "open", "lookup", "write", "statusDone", "done"}
               => machoCtx'[r].file.bytes =
                    SoloBuffer(cacheFile, target'[r].address,
                               IF failed'[r] = NoCall THEN Len(stageLog'[r])
                               ELSE Len(stageLog'[r]) - 1)
          /\ Extracted(r)' =>
               outFile'[r].data =
                 SoloOutput(cacheFile, target'[r].address, machoCtx'[r].segments)
    ]_vars

C8_Witness ==
  /\ Extracted("A")
  /\ outFile["A"].data # <<>>
  /\ machoCtx["A"].file.bytes # cacheFile
  /\ pc["B"] = "stage"
  /\ Len(stageLog["B"]) = 3
  /\ machoCtx["B"].file.bytes # cacheFile
  /\ machoCtx["B"].file.bytes # machoCtx["A"].file.bytes

DirectoryPaths ==
  Kept([i \in 1..Len(images) |-> images[i].path],
       {i \in 1..Len(images) :
          \A j \in 1..i - 1 : images[j].path # images[i].path})

\* C10: when --list-frameworks is set, main prints the image paths (those
\* containing the stripped --filter term, when one is given) and returns
\* without calling a converter, making a directory or opening a file, even
\* when --extract and --output are given too.
C10_ListingTakesPrecedence ==
  \A r \in RunIds :
    (args.list_frameworks /\ pc[r] # "idle") =>
      /\ NothingWritten(r)
      /\ pc[r] = "done" =>
           printed[r] =
             <<[kind |-> "Listing Images",
                text |->
                  IF Truthy(args.filter)
                  THEN Kept(DirectoryPaths,
                            {i \in 1..Len(DirectoryPaths) :
                               ContainsCI(strip(args.filter), DirectoryPaths[i])})
                  ELSE DirectoryPaths]>>

C10_Witness ==
  \E r \in RunIds :
    /\ pc[r] = "done"
    /\ args.list_frameworks
    /\ Truthy(args.filter)
    /\ args.output # None
    /\ Truthy(args.extract)
    /\ MatchingImages(strip(args.extract)) # {}
    /\ Len(images) >= 2
    /\ Len(printed[r][1].text) = 1

====
